---- MODULE Spec2Model ----
(***************************************************************************)
(* A model of api/handler/payment_handler.go: the PaymentHandler of the   *)
(* geekai payment service.  The data store rows the handler reads and     *)
(* writes (orders, users, products, power logs), the handler's mutex and  *)
(* signing key, and one worker per in-flight HTTP request, each stepping  *)
(* through its handler between data-store operations.                     *)
(***************************************************************************)
EXTENDS Integers, Sequences, FiniteSets, TLC

(***************************************************************************)
(* Bounds of the model.                                                    *)
(***************************************************************************)
\* concurrent provider callbacks (workers running a *Notify handler)
MaxCallbacks == 2
\* concurrent client requests (workers running DoPay or PayQrcode)
MaxClients == 2
\* order rows present when the process starts
MaxOrders == 1
\* the clock runs from second 1 to second MaxTime
MaxTime == 2
\* data-store operations that may fail during one run
MaxDbFaults == 1

(***************************************************************************)
(* Configuration read by the handler.                                     *)
(***************************************************************************)
\* h.App.SysConfig.OrderPayTimeout, in seconds
OrderPayTimeout == 1
\* h.App.SysConfig.VipMonthPower
VipMonthPower == 50
\* calendar day added by time.AddDate(0, 0, 1), in seconds
SecondsPerDay == 86400

\* types.OrderNotPaid, types.OrderScanned, types.OrderPaidSuccess
OrderNotPaid == "NotPaid"
OrderScanned == "Scanned"
OrderPaidSuccess == "PaidSuccess"

Callbacks == 1..MaxCallbacks
Clients == (MaxCallbacks + 1)..(MaxCallbacks + MaxClients)
Workers == Callbacks \cup Clients

\* h.signKey: utils.RandString(32), drawn once by NewPaymentHandler
signKey == "K"

\* order numbers are decimal strings (snowflake ids)
StoredOrderNos == {ToString(i) : i \in 1..MaxOrders}
\* the order number no row has
UnknownOrderNo == "404"
OrderNos == StoredOrderNos \cup {UnknownOrderNo}
TradeNos == {"T1"}
PayWays == {"hupi", "alipay", "wechat", "geek"}
Times == 1..MaxTime

NoRow == [exists |-> FALSE]

(***************************************************************************)
(* types.OrderRemark and its JSON form (utils.JsonEncode/JsonDecode).     *)
(***************************************************************************)
Products == {1, 2}
ProductRow(id) ==
    IF id = 1 THEN [days |-> 30, power |-> 0] ELSE [days |-> 0, power |-> 100]
\* the rows an administrator may give a product later on
ProductEdits == {[days |-> 60, power |-> 0], [days |-> 0, power |-> 200]}
Remarks == {ProductRow(id) : id \in Products} \cup ProductEdits

JsonEncode(remark) ==
    "{days:" \o ToString(remark.days) \o ",power:" \o ToString(remark.power) \o "}"

\* a remark column that is not the JSON of an OrderRemark
CorruptRemark == "{days:"

JsonDecode(s) ==
    IF \E r \in Remarks : JsonEncode(r) = s
    THEN [ok |-> TRUE, val |-> CHOOSE r \in Remarks : JsonEncode(r) = s]
    ELSE [ok |-> FALSE, val |-> [days |-> 0, power |-> 0]]

(***************************************************************************)
(* utils.Sha256 and the two strings that are signed.                      *)
(***************************************************************************)
Sha256(s) == "sha256(" \o s \o ")"

\* DoPay: fmt.Sprintf("%s-%d-%s", orderNo, t, h.signKey)
DoPaySignStr(orderNo, t) ==
    orderNo \o "-" \o ToString(t) \o "-" \o signKey

\* PayQrcode: fmt.Sprintf("%s-%s-%d-%s", orderNo, data.PayWay, timestamp, h.signKey)
PayQrcodeSignStr(orderNo, payWay, timestamp) ==
    orderNo \o "-" \o payWay \o "-" \o ToString(timestamp) \o "-" \o signKey

\* time.Unix(t, 0).AddDate(0, 0, days).Unix()
AddDate(t, days) == t + days * SecondsPerDay

VARIABLES
    orders,     \* order_no -> model.Order row, or NoRow
    users,      \* id -> model.User row, or NoRow
    products,   \* product id -> model.Product's days and power
    sales,      \* product id -> model.Product.sales
    powerLogs,  \* the model.PowerLog rows, in insertion order
    lock,       \* h.lock: TRUE while a goroutine holds the mutex
    now,        \* time.Now().Unix()
    faults,     \* data-store operations that may still fail
    issued,     \* the pay URLs PayQrcode has returned
    pc,         \* worker -> position in its handler
    loc         \* worker -> the handler's local variables

vars == <<orders, users, products, sales, powerLogs, lock, now, faults, issued,
          pc, loc>>

db == <<orders, users, products, sales, powerLogs>>

\* the locals of a worker that runs no handler
\* called, seen, locked, saved and lost record what the request has done:
\* that it entered notify, the status of the order it read, that it took
\* h.lock, the writes of it that were stored and those that failed
NoLocals ==
    [orderNo |-> "", tradeNo |-> "", t |-> 0, sign |-> "", url |-> FALSE,
     verified |-> FALSE, order |-> NoRow, user |-> NoRow, power |-> 0,
     opt |-> "", err |-> "", resp |-> "",
     called |-> FALSE, seen |-> "", locked |-> FALSE, saved |-> {}, lost |-> {}]

\* h.DB.Where("order_no = ?", orderNo).First(&order)
FindOrder(orderNo) ==
    IF orderNo \in DOMAIN orders THEN orders[orderNo] ELSE NoRow

\* h.DB.First(&user, id)
FindUser(id) ==
    IF id \in DOMAIN users THEN users[id] ELSE NoRow

\* a data-store write may fail while the fault budget lasts
MayFail == faults > 0

(***************************************************************************)
(* The state when the process starts: the order rows earlier requests     *)
(* left unpaid, the account that placed them, an empty mutex.             *)
(***************************************************************************)
OrderRow(orderNo, userId, productId, payWay, remark) ==
    [exists |-> TRUE, orderNo |-> orderNo, userId |-> userId,
     productId |-> productId, status |-> OrderNotPaid, payWay |-> payWay,
     tradeNo |-> "", payTime |-> 0, remark |-> remark]

\* the rows PayQrcode and Mobile write for user 1
SoundOrderRows(orderNo) ==
    {OrderRow(orderNo, 1, p, "alipay", JsonEncode(ProductRow(p))) : p \in Products}

\* a row whose account has since been removed, and a row whose remark
\* column no longer decodes
DamagedOrderRows(orderNo) ==
    {OrderRow(orderNo, 2, 2, "alipay", JsonEncode(ProductRow(2))),
     OrderRow(orderNo, 1, 2, "alipay", CorruptRemark)}

InitUsers ==
    {[exists |-> TRUE, id |-> 1, power |-> 10, expiredTime |-> 0, vip |-> FALSE],
     [exists |-> TRUE, id |-> 1, power |-> 10,
      expiredTime |-> AddDate(1, 1), vip |-> TRUE]}

\* rows: order number -> the rows it may hold; accounts: the rows user 1
\* may hold
InitRows(rows, accounts) ==
    /\ orders \in {f \in [DOMAIN rows -> UNION {rows[o] : o \in DOMAIN rows}] :
                      \A o \in DOMAIN rows : f[o] \in rows[o]}
    /\ \E u \in accounts : users = (1 :> u)
    /\ products = [p \in Products |-> ProductRow(p)]
    /\ sales = [p \in Products |-> 0]
    /\ powerLogs = <<>>

InitStore(rows) == InitRows(rows, InitUsers)

InitHandler ==
    /\ lock = FALSE
    /\ now = 1
    /\ issued = {}
    /\ pc = [w \in Workers |-> "idle"]
    /\ loc = [w \in Workers |-> NoLocals]

\* a run in which every data-store write succeeds
Init ==
    /\ InitStore([o \in StoredOrderNos |-> SoundOrderRows(o)])
    /\ InitHandler
    /\ faults = 0

\* a run in which up to MaxDbFaults data-store writes fail
AnyOrderRows(orderNo) == SoundOrderRows(orderNo) \cup DamagedOrderRows(orderNo)

InitFaulty ==
    /\ InitStore([o \in StoredOrderNos |-> AnyOrderRows(o)])
    /\ InitHandler
    /\ faults = MaxDbFaults

(***************************************************************************)
(* The provider notification endpoints, up to their call of notify.       *)
(***************************************************************************)
\* workers are numbered in the order their requests arrive
Arrives(w, pool) ==
    /\ w \in pool
    /\ pc[w] = "idle"
    /\ \A v \in pool : v < w => pc[v] # "idle"

\* c.String(http.StatusOK, body); return
Respond(w, body) ==
    /\ pc' = [pc EXCEPT ![w] = "done"]
    /\ loc' = [loc EXCEPT ![w] = [NoLocals EXCEPT !.resp = body]]

\* err = h.notify(orderNo, tradeNo)
CallNotify(w, orderNo, tradeNo, verified) ==
    /\ pc' = [pc EXCEPT ![w] = "notify"]
    /\ loc' = [loc EXCEPT ![w] = [NoLocals EXCEPT
                                     !.orderNo = orderNo, !.tradeNo = tradeNo,
                                     !.verified = verified, !.called = TRUE]]

\* the order number a notification carries: that of a stored order, or one
\* no row has
NotifiedOrderNos == DOMAIN orders \cup {UnknownOrderNo}

\* parsed: c.Request.ParseForm() returned nil
\* checked: h.huPiPayService.Check(tradeNo) returned nil
HuPiPayNotify(w) ==
    /\ Arrives(w, Callbacks)
    /\ \E parsed \in BOOLEAN, checked \in BOOLEAN, orderNo \in NotifiedOrderNos, tradeNo \in TradeNos :
         IF ~parsed THEN Respond(w, "fail")
         ELSE IF ~checked THEN Respond(w, "fail")
         ELSE CallNotify(w, orderNo, tradeNo, TRUE)
    /\ UNCHANGED <<db, lock, now, faults, issued>>

\* success: h.alipayService.TradeVerify(c.Request).Success()
AlipayNotify(w) ==
    /\ Arrives(w, Callbacks)
    /\ \E parsed \in BOOLEAN, success \in BOOLEAN, orderNo \in NotifiedOrderNos, tradeNo \in TradeNos :
         IF ~parsed THEN Respond(w, "fail")
         ELSE IF ~success THEN Respond(w, "fail")
         ELSE CallNotify(w, orderNo, tradeNo, TRUE)
    /\ UNCHANGED <<db, lock, now, faults, issued>>

\* returnCode: the form's return_code; the provider-side check of the trade
\* (geekPayService.TradeVerify) is commented out, so none is performed
PayJsNotify(w) ==
    /\ Arrives(w, Callbacks)
    /\ \E parsed \in BOOLEAN, returnCode \in {"0", "1"}, orderNo \in NotifiedOrderNos, tradeNo \in TradeNos :
         IF ~parsed THEN Respond(w, "fail")
         ELSE IF returnCode # "1" THEN Respond(w, "")
         ELSE CallNotify(w, orderNo, tradeNo, FALSE)
    /\ UNCHANGED <<db, lock, now, faults, issued>>

\* success: h.wechatPayService.TradeVerify(c.Request).Success(); when it is
\* false the handler evaluates err.Error() on the nil err ParseForm returned,
\* which panics before c.JSON writes the {"code": "FAIL"} body
WechatPayNotify(w) ==
    /\ Arrives(w, Callbacks)
    /\ \E parsed \in BOOLEAN, success \in BOOLEAN, orderNo \in NotifiedOrderNos, tradeNo \in TradeNos :
         IF ~parsed THEN Respond(w, "fail")
         ELSE IF ~success THEN Respond(w, "panic")
         ELSE CallNotify(w, orderNo, tradeNo, TRUE)
    /\ UNCHANGED <<db, lock, now, faults, issued>>

\* after notify returned: if err != nil "fail", else "success"
NotifyAck(w) ==
    /\ pc[w] = "ack"
    /\ pc' = [pc EXCEPT ![w] = "done"]
    /\ loc' = [loc EXCEPT ![w].resp = IF loc[w].err # "" THEN "fail" ELSE "success",
                          ![w].tradeNo = "", ![w].verified = FALSE,
                          ![w].order = NoRow, ![w].user = NoRow,
                          ![w].power = 0, ![w].opt = ""]
    /\ UNCHANGED <<db, lock, now, faults, issued>>

(***************************************************************************)
(* notify, one action per data-store operation or mutex operation.        *)
(***************************************************************************)
\* ReturnErr without the deferred h.lock.Unlock()
ReturnErrLocked(w, err) ==
    /\ pc' = [pc EXCEPT ![w] = "ack"]
    /\ loc' = [loc EXCEPT ![w].err = err]

\* return err, with h.lock held
ReturnErr(w, err) ==
    /\ pc' = [pc EXCEPT ![w] = "unlock"]
    /\ loc' = [loc EXCEPT ![w].err = err]

\* NotifyFetchOrder with the error of the read dropped
NotifyFetchOrderUnchecked(w) ==
    /\ pc[w] = "notify"
    /\ pc' = [pc EXCEPT ![w] = "lock"]
    /\ loc' = [loc EXCEPT ![w].order = FindOrder(loc[w].orderNo)]
    /\ UNCHANGED <<db, lock, now, faults, issued>>

NotifyFetchOrder(w) ==
    /\ pc[w] = "notify"
    /\ LET order == FindOrder(loc[w].orderNo) IN
         IF ~order.exists
         THEN /\ pc' = [pc EXCEPT ![w] = "ack"]
              /\ loc' = [loc EXCEPT ![w].err = "error with fetch order"]
         ELSE /\ pc' = [pc EXCEPT ![w] = "lock"]
              /\ loc' = [loc EXCEPT ![w].order = order, ![w].seen = order.status]
    /\ UNCHANGED <<db, lock, now, faults, issued>>

\* NotifyLock with a mutex that does not exclude
NotifyLockShared(w) ==
    /\ pc[w] = "lock"
    /\ lock' = TRUE
    /\ pc' = [pc EXCEPT ![w] = "credit"]
    /\ loc' = [loc EXCEPT ![w].locked = TRUE]
    /\ UNCHANGED <<db, now, faults, issued>>

\* h.lock.Lock()
NotifyLock(w) ==
    /\ pc[w] = "lock"
    /\ ~lock
    /\ lock' = TRUE
    /\ pc' = [pc EXCEPT ![w] = "credit"]
    /\ loc' = [loc EXCEPT ![w].locked = TRUE]
    /\ UNCHANGED <<db, now, faults, issued>>

\* Credit with the subscription bonus assigned to the power, not added
CreditBonusAssigned(user, remark, clock) ==
    IF remark.days > 0
    THEN IF user.expiredTime >= clock
         THEN <<[user EXCEPT !.expiredTime = AddDate(user.expiredTime, remark.days),
                             !.vip = TRUE],
                0, "extend">>
         ELSE <<[user EXCEPT !.expiredTime = AddDate(clock, remark.days),
                             !.power = VipMonthPower, !.vip = TRUE],
                VipMonthPower, "vip">>
    ELSE <<[user EXCEPT !.power = @ + remark.power], remark.power, "topup">>

\* Credit with the subscription compared by > instead of >=
CreditStrict(user, remark, clock) ==
    IF remark.days > 0
    THEN IF user.expiredTime > clock
         THEN <<[user EXCEPT !.expiredTime = AddDate(user.expiredTime, remark.days),
                             !.vip = TRUE],
                0, "extend">>
         ELSE <<[user EXCEPT !.expiredTime = AddDate(clock, remark.days),
                             !.power = @ + VipMonthPower, !.vip = TRUE],
                VipMonthPower, "vip">>
    ELSE <<[user EXCEPT !.power = @ + remark.power], remark.power, "topup">>

\* the user mutation of lines 438-455: <<user, power, opt>>
Credit(user, remark, clock) ==
    IF remark.days > 0
    THEN IF user.expiredTime >= clock
         THEN <<[user EXCEPT !.expiredTime = AddDate(user.expiredTime, remark.days),
                             !.vip = TRUE],
                0, "extend">>
         ELSE <<[user EXCEPT !.expiredTime = AddDate(clock, remark.days),
                             !.power = @ + VipMonthPower, !.vip = TRUE],
                VipMonthPower, "vip">>
    ELSE <<[user EXCEPT !.power = @ + remark.power], remark.power, "topup">>

\* NotifyCredit without the already-paid check
NotifyCreditUngated(w) ==
    /\ pc[w] = "credit"
    /\ LET order == loc[w].order
           user == FindUser(order.userId)
           remark == JsonDecode(order.remark)
           credit == Credit(user, remark.val, now)
       IN
         IF ~user.exists THEN ReturnErr(w, "error with fetch user info")
         ELSE IF ~remark.ok THEN ReturnErr(w, "error with decode order remark")
         ELSE /\ pc' = [pc EXCEPT ![w] = "update_user"]
              /\ loc' = [loc EXCEPT ![w].user = credit[1], ![w].power = credit[2],
                                    ![w].opt = credit[3]]
    /\ UNCHANGED <<db, lock, now, faults, issued>>

\* NotifyCredit taking days and power from the product's row as it is now
NotifyCreditFromProduct(w) ==
    /\ pc[w] = "credit"
    /\ LET order == loc[w].order
           user == FindUser(order.userId)
           remark == JsonDecode(order.remark)
           credit == Credit(user, products[order.productId], now)
       IN
         IF order.status = OrderPaidSuccess THEN ReturnErr(w, "")
         ELSE IF ~user.exists THEN ReturnErr(w, "error with fetch user info")
         ELSE IF ~remark.ok THEN ReturnErr(w, "error with decode order remark")
         ELSE /\ pc' = [pc EXCEPT ![w] = "update_user"]
              /\ loc' = [loc EXCEPT ![w].user = credit[1], ![w].power = credit[2],
                                    ![w].opt = credit[3]]
    /\ UNCHANGED <<db, lock, now, faults, issued>>

\* the already-paid check on the order read before the lock, the user read,
\* the remark decoding and the credit computation
NotifyCredit(w) ==
    /\ pc[w] = "credit"
    /\ LET order == loc[w].order
           user == FindUser(order.userId)
           remark == JsonDecode(order.remark)
           credit == Credit(user, remark.val, now)
       IN
         IF order.status = OrderPaidSuccess THEN ReturnErr(w, "")
         ELSE IF ~user.exists THEN ReturnErr(w, "error with fetch user info")
         ELSE IF ~remark.ok THEN ReturnErr(w, "error with decode order remark")
         ELSE /\ pc' = [pc EXCEPT ![w] = "update_user"]
              /\ loc' = [loc EXCEPT ![w].user = credit[1], ![w].power = credit[2],
                                    ![w].opt = credit[3]]
    /\ UNCHANGED <<db, lock, now, faults, issued>>

\* NotifyUpdateUser going on to the order update when the write failed
NotifyUpdateUserUnchecked(w) ==
    /\ pc[w] = "update_user"
    /\ pc' = [pc EXCEPT ![w] = "update_order"]
    /\ \/ /\ MayFail
          /\ faults' = faults - 1
          /\ loc' = [loc EXCEPT ![w].lost = @ \cup {"user"}]
          /\ UNCHANGED users
       \/ /\ users' = [users EXCEPT ![loc[w].user.id] = loc[w].user]
          /\ loc' = [loc EXCEPT ![w].saved = @ \cup {"user"}]
          /\ UNCHANGED faults
    /\ UNCHANGED <<orders, products, sales, powerLogs, lock, now, issued>>

\* res = h.DB.Updates(&user)
NotifyUpdateUser(w) ==
    /\ pc[w] = "update_user"
    /\ \/ /\ MayFail
          /\ faults' = faults - 1
          /\ pc' = [pc EXCEPT ![w] = "unlock"]
          /\ loc' = [loc EXCEPT ![w].err = "error with update user info",
                                ![w].lost = @ \cup {"user"}]
          /\ UNCHANGED users
       \/ /\ users' = [users EXCEPT ![loc[w].user.id] = loc[w].user]
          /\ pc' = [pc EXCEPT ![w] = "update_order"]
          /\ loc' = [loc EXCEPT ![w].saved = @ \cup {"user"}]
          /\ UNCHANGED faults
    /\ UNCHANGED <<orders, products, sales, powerLogs, lock, now, issued>>

\* gorm's Updates with a struct writes its non-zero fields to the row of its
\* primary key; of the columns of an order only these three ever change
UpdatesOrder(row, order) ==
    [row EXCEPT !.status = order.status,
                !.tradeNo = IF order.tradeNo # "" THEN order.tradeNo ELSE @,
                !.payTime = IF order.payTime # 0 THEN order.payTime ELSE @]

\* order.PayTime, order.Status, order.TradeNo are set; res = h.DB.Updates(&order)
NotifyUpdateOrder(w) ==
    /\ pc[w] = "update_order"
    /\ LET order == [loc[w].order EXCEPT !.payTime = now,
                                         !.status = OrderPaidSuccess,
                                         !.tradeNo = loc[w].tradeNo]
       IN \/ /\ MayFail
             /\ faults' = faults - 1
             /\ pc' = [pc EXCEPT ![w] = "unlock"]
             /\ loc' = [loc EXCEPT ![w].order = order,
                                   ![w].err = "error with update order info",
                                   ![w].lost = @ \cup {"order"}]
             /\ UNCHANGED orders
          \/ /\ orders' = [orders EXCEPT ![order.orderNo] = UpdatesOrder(@, order)]
             /\ pc' = [pc EXCEPT ![w] = "update_sales"]
             /\ loc' = [loc EXCEPT ![w].order = order, ![w].saved = @ \cup {"order"}]
             /\ UNCHANGED faults
    /\ UNCHANGED <<users, products, sales, powerLogs, lock, now, issued>>

\* UpdateColumn("sales", gorm.Expr("sales + ?", 1)); its error is dropped
NotifyUpdateSales(w) ==
    /\ pc[w] = "update_sales"
    /\ pc' = [pc EXCEPT ![w] = "power_log"]
    /\ \/ /\ MayFail
          /\ faults' = faults - 1
          /\ loc' = [loc EXCEPT ![w].lost = @ \cup {"sales"}]
          /\ UNCHANGED sales
       \/ /\ sales' = [sales EXCEPT ![loc[w].order.productId] = @ + 1]
          /\ loc' = [loc EXCEPT ![w].saved = @ \cup {"sales"}]
          /\ UNCHANGED faults
    /\ UNCHANGED <<orders, users, products, powerLogs, lock, now, issued>>

\* if power > 0 { h.DB.Create(&model.PowerLog{...}) }, its error dropped; return nil
NotifyPowerLog(w) ==
    /\ pc[w] = "power_log"
    /\ pc' = [pc EXCEPT ![w] = "unlock"]
    /\ IF loc[w].power > 0
       THEN \/ /\ MayFail
               /\ faults' = faults - 1
               /\ loc' = [loc EXCEPT ![w].err = "", ![w].lost = @ \cup {"log"}]
               /\ UNCHANGED powerLogs
            \/ /\ powerLogs' = Append(powerLogs,
                     [userId |-> loc[w].user.id, amount |-> loc[w].power,
                      balance |-> loc[w].user.power, model |-> loc[w].order.payWay,
                      opt |-> loc[w].opt, orderNo |-> loc[w].order.orderNo])
               /\ loc' = [loc EXCEPT ![w].err = "", ![w].saved = @ \cup {"log"}]
               /\ UNCHANGED faults
       ELSE /\ loc' = [loc EXCEPT ![w].err = ""]
            /\ UNCHANGED <<powerLogs, faults>>
    /\ UNCHANGED <<orders, users, products, sales, lock, now, issued>>

\* defer h.lock.Unlock()
NotifyUnlock(w) ==
    /\ pc[w] = "unlock"
    /\ lock' = FALSE
    /\ pc' = [pc EXCEPT ![w] = "ack"]
    /\ UNCHANGED <<db, now, faults, issued, loc>>

notify(w) ==
    \/ NotifyFetchOrder(w)
    \/ NotifyLock(w)
    \/ NotifyCredit(w)
    \/ NotifyUpdateUser(w)
    \/ NotifyUpdateOrder(w)
    \/ NotifyUpdateSales(w)
    \/ NotifyPowerLog(w)
    \/ NotifyUnlock(w)

Callback(w) ==
    \/ HuPiPayNotify(w)
    \/ AlipayNotify(w)
    \/ PayJsNotify(w)
    \/ WechatPayNotify(w)
    \/ notify(w)
    \/ NotifyAck(w)

(***************************************************************************)
(* PayQrcode: creates the order and returns the signed pay URL.           *)
(***************************************************************************)
\* h.snowflake.Next(false): a number no order has
NextOrderNo == ToString(Cardinality(DOMAIN orders) + 1)

\* the doPay URL of line 277: its order_no, pay_way, t and sign parameters
PayUrl(orderNo, payWay, timestamp) ==
    [orderNo |-> orderNo, payWay |-> payWay, t |-> timestamp,
     sign |-> Sha256(PayQrcodeSignStr(orderNo, payWay, timestamp))]

\* bound: c.ShouldBindJSON succeeded; productId 0 is no product's id, and
\* the remark is the JSON of the product row as h.DB.First read it;
\* login: h.GetLoginUser(c) found the session's user (user 1)
PayQrcode(w) ==
    /\ Arrives(w, Clients)
    /\ \E bound \in BOOLEAN, productId \in Products \cup {0}, login \in BOOLEAN,
          payWay \in PayWays \cup {"other"} :
         IF ~bound THEN Respond(w, "InvalidArgs") /\ UNCHANGED <<orders, issued>>
         ELSE IF productId \notin Products
         THEN Respond(w, "Product not found") /\ UNCHANGED <<orders, issued>>
         ELSE IF ~login THEN Respond(w, "NotAuth") /\ UNCHANGED <<orders, issued>>
         ELSE IF payWay \notin PayWays
         THEN Respond(w, "Invalid pay way") /\ UNCHANGED <<orders, issued>>
         ELSE /\ Cardinality(DOMAIN orders) < MaxOrders
              /\ orders' = orders @@ (NextOrderNo :>
                     OrderRow(NextOrderNo, 1, productId, payWay,
                              JsonEncode(products[productId])))
              /\ issued' = issued \cup {PayUrl(NextOrderNo, payWay, now)}
              /\ Respond(w, "url")
    /\ UNCHANGED <<users, products, sales, powerLogs, lock, now, faults>>

(***************************************************************************)
(* Mobile: asks the provider for the pay URL, then creates the order.     *)
(***************************************************************************)
\* bound, productId, login as in PayQrcode; paid: the provider call of the
\* pay way (huPiPayService.Pay, alipayService.PayUrlMobile,
\* wechatPayService.PayUrlH5) returned no error; "geek" calls no provider.
\* The response keeps the order number h.snowflake.Next drew at line 305.
Mobile(w) ==
    /\ Arrives(w, Clients)
    /\ \E bound \in BOOLEAN, productId \in Products \cup {0}, login \in BOOLEAN,
          payWay \in PayWays \cup {"other"}, paid \in BOOLEAN :
         IF ~bound THEN Respond(w, "InvalidArgs") /\ UNCHANGED orders
         ELSE IF productId \notin Products
         THEN Respond(w, "Product not found") /\ UNCHANGED orders
         ELSE IF ~login THEN Respond(w, "NotAuth") /\ UNCHANGED orders
         ELSE IF payWay \notin PayWays
         THEN Respond(w, "Unsupported pay way") /\ UNCHANGED orders
         ELSE IF payWay # "geek" /\ ~paid
         THEN /\ pc' = [pc EXCEPT ![w] = "done"]
              /\ loc' = [loc EXCEPT ![w] = [NoLocals EXCEPT
                            !.resp = "provider error", !.orderNo = NextOrderNo]]
              /\ UNCHANGED orders
         ELSE /\ Cardinality(DOMAIN orders) < MaxOrders
              /\ orders' = orders @@ (NextOrderNo :>
                     OrderRow(NextOrderNo, 1, productId, payWay,
                              JsonEncode(products[productId])))
              /\ pc' = [pc EXCEPT ![w] = "done"]
              /\ loc' = [loc EXCEPT ![w] = [NoLocals EXCEPT
                            !.resp = "url", !.orderNo = NextOrderNo]]
    /\ UNCHANGED <<users, products, sales, powerLogs, lock, now, faults, issued>>

(***************************************************************************)
(* DoPay: checks the signed URL, marks the order scanned, calls the       *)
(* provider.                                                               *)
(***************************************************************************)
\* DoPayReject without the expiry check
DoPayRejectUnexpiring(orderNo, t, sign, clock) ==
    IF Sha256(DoPaySignStr(orderNo, t)) # sign THEN "sign error"
    ELSE IF orderNo = "" THEN "InvalidArgs"
    ELSE ""

\* the checks of lines 78-94: the error DoPay answers with, "" when it goes on
DoPayReject(orderNo, t, sign, clock) ==
    IF Sha256(DoPaySignStr(orderNo, t)) # sign THEN "sign error"
    ELSE IF clock - t > OrderPayTimeout THEN "qrcode expired"
    ELSE IF orderNo = "" THEN "InvalidArgs"
    ELSE ""

\* the query parameters a client may send: those of a URL PayQrcode issued,
\* or any other order_no, t and sign
DoPayOrderNos ==
    OrderNos \cup {""} \cup {u.orderNo \o "-" \o u.payWay : u \in issued}

DoPaySigns(orderNo, t) ==
    {Sha256(DoPaySignStr(orderNo, t)), "forged"} \cup {u.sign : u \in issued}

IsIssued(orderNo, t, sign) ==
    \E u \in issued : u.orderNo = orderNo /\ u.t = t /\ u.sign = sign

DoPay(w) ==
    /\ Arrives(w, Clients)
    /\ \E orderNo \in DoPayOrderNos, t \in 0..MaxTime :
         \E sign \in DoPaySigns(orderNo, t) :
           LET error == DoPayReject(orderNo, t, sign, now) IN
             IF error # ""
             THEN /\ pc' = [pc EXCEPT ![w] = "done"]
                  /\ loc' = [loc EXCEPT ![w] = [NoLocals EXCEPT
                                !.resp = error,
                                !.url = IsIssued(orderNo, t, sign)
                                        /\ now - t <= OrderPayTimeout]]
             ELSE /\ pc' = [pc EXCEPT ![w] = "dopay_fetch"]
                  /\ loc' = [loc EXCEPT ![w] = [NoLocals EXCEPT
                                !.orderNo = orderNo, !.t = t, !.sign = sign,
                                !.url = IsIssued(orderNo, t, sign)]]
    /\ UNCHANGED <<db, lock, now, faults, issued>>

\* resp.ERROR, resp.SUCCESS or c.Redirect, and return: the locals are
\* dropped, what the request has done is kept
DoPayRespond(w, body) ==
    /\ pc' = [pc EXCEPT ![w] = "done"]
    /\ loc' = [loc EXCEPT ![w] = [NoLocals EXCEPT
                  !.resp = body, !.orderNo = loc[w].orderNo, !.url = loc[w].url,
                  !.seen = loc[w].seen, !.saved = loc[w].saved]]

\* lines 96-107: the order is read, and a paid order is refused
DoPayFetchOrder(w) ==
    /\ pc[w] = "dopay_fetch"
    /\ LET order == FindOrder(loc[w].orderNo) IN
         IF ~order.exists THEN DoPayRespond(w, "Order not found")
         ELSE IF order.status = OrderPaidSuccess
         THEN DoPayRespond(w, "order already paid")
         ELSE /\ pc' = [pc EXCEPT ![w] = "dopay_scan"]
              /\ loc' = [loc EXCEPT ![w].order = order, ![w].seen = order.status]
    /\ UNCHANGED <<db, lock, now, faults, issued>>

\* h.DB.Model(&order).UpdateColumn("status", types.OrderScanned): the row of
\* the order read above gets the status, whatever it holds by now
DoPayMarkScanned(w) ==
    /\ pc[w] = "dopay_scan"
    /\ orders' = [orders EXCEPT ![loc[w].order.orderNo].status = OrderScanned]
    /\ pc' = [pc EXCEPT ![w] = "dopay_provider"]
    /\ loc' = [loc EXCEPT ![w].order.status = OrderScanned,
                          ![w].saved = @ \cup {"scanned"}]
    /\ UNCHANGED <<users, products, sales, powerLogs, lock, now, faults, issued>>

\* lines 112-163: the provider of order.PayWay is asked for the pay target;
\* paid: the provider call returned no error
DoPayProvider(w) ==
    /\ pc[w] = "dopay_provider"
    /\ \E paid \in BOOLEAN :
         DoPayRespond(w, IF loc[w].order.payWay \notin PayWays THEN ""
                         ELSE IF ~paid THEN "provider error"
                         ELSE IF loc[w].order.payWay = "geek" THEN "SUCCESS"
                         ELSE "302")
    /\ UNCHANGED <<db, lock, now, faults, issued>>

Pay(w) ==
    \/ DoPay(w)
    \/ DoPayFetchOrder(w)
    \/ DoPayMarkScanned(w)
    \/ DoPayProvider(w)

\* an administrator gives a product other days and power (the product
\* management pages, outside this handler)
EditProduct ==
    /\ \E p \in Products, row \in ProductEdits :
         /\ products[p] # row
         /\ products' = [products EXCEPT ![p] = row]
    /\ UNCHANGED <<orders, users, sales, powerLogs, lock, now, faults, issued, pc, loc>>

\* a second passes
Tick ==
    /\ now < MaxTime
    /\ now' = now + 1
    /\ UNCHANGED <<db, lock, faults, issued, pc, loc>>

(***************************************************************************)
(* Specifications.                                                         *)
(***************************************************************************)
\* provider callbacks arriving concurrently, every write succeeding
Next == \E w \in Workers : Callback(w)

Spec == Init /\ [][Next]_vars

\* a provider that delivers again once the previous delivery was answered
Answered(w) == \A v \in Callbacks : v < w => pc[v] = "done"

Redelivery(w) ==
    \/ Answered(w) /\ HuPiPayNotify(w)
    \/ Answered(w) /\ AlipayNotify(w)
    \/ Answered(w) /\ PayJsNotify(w)
    \/ Answered(w) /\ WechatPayNotify(w)
    \/ notify(w)
    \/ NotifyAck(w)

\* provider deliveries racing with clients that open a pay URL
NextScan == \E w \in Workers : Redelivery(w) \/ Pay(w)

SpecScan == Init /\ [][NextScan]_vars

\* redeliveries against a store whose writes may fail
NextRetry == \E w \in Workers : Redelivery(w)

SpecRetry == InitFaulty /\ [][NextRetry]_vars

\* clients that request pay URLs and open them, while the clock runs
InitPay ==
    /\ orders = <<>>
    /\ \E u \in InitUsers : users = (1 :> u)
    /\ products = [p \in Products |-> ProductRow(p)]
    /\ sales = [p \in Products |-> 0]
    /\ powerLogs = <<>>
    /\ InitHandler
    /\ faults = 0

NextPay ==
    \/ \E w \in Workers : PayQrcode(w) \/ Pay(w)
    \/ Tick

SpecPay == InitPay /\ [][NextPay]_vars

\* clients that create orders from the desktop and the mobile page and open
\* pay URLs
NextMobile == \E w \in Workers : PayQrcode(w) \/ Mobile(w) \/ Pay(w)

SpecMobile == InitPay /\ [][NextMobile]_vars

\* orders notified while an administrator edits the products they were
\* created from
NextEdit ==
    \/ \E w \in Workers : Redelivery(w)
    \/ EditProduct

SpecEdit == Init /\ [][NextEdit]_vars

\* redeliveries while the clock runs, for an account whose subscription ends
\* before, at or after the second the process starts
ClockUsers ==
    {[exists |-> TRUE, id |-> 1, power |-> 10, expiredTime |-> t, vip |-> t > 0] :
       t \in 0..(MaxTime + 1)}

InitClock ==
    /\ InitRows([o \in StoredOrderNos |-> SoundOrderRows(o)], ClockUsers)
    /\ InitHandler
    /\ faults = 0

NextClock ==
    \/ \E w \in Workers : Redelivery(w)
    \/ Tick

SpecClock == InitClock /\ [][NextClock]_vars

\* concurrent callbacks against a store whose writes may fail, every
\* goroutine scheduled again and again and sync.Mutex handing the lock to
\* a goroutine that keeps waiting for it
Running(w) ==
    \/ NotifyFetchOrder(w)
    \/ NotifyCredit(w)
    \/ NotifyUpdateUser(w)
    \/ NotifyUpdateOrder(w)
    \/ NotifyUpdateSales(w)
    \/ NotifyPowerLog(w)
    \/ NotifyUnlock(w)
    \/ NotifyAck(w)

Fairness ==
    \A w \in Callbacks : WF_vars(Running(w)) /\ SF_vars(NotifyLock(w))

SpecFair == InitFaulty /\ [][Next]_vars /\ Fairness

\* one account with an unpaid order per callback, each order notified once,
\* the notifications arriving concurrently
PairOrderNos == {ToString(i) : i \in Callbacks}

InitPair ==
    /\ InitStore([o \in PairOrderNos |-> SoundOrderRows(o)])
    /\ InitHandler
    /\ faults = 0

\* the notification worker w handles carries the order number of w's order
OwnOrder(w) == loc'[w].called => loc'[w].orderNo = ToString(w)

Delivery(w) ==
    \/ HuPiPayNotify(w) /\ OwnOrder(w)
    \/ AlipayNotify(w) /\ OwnOrder(w)
    \/ PayJsNotify(w) /\ OwnOrder(w)
    \/ WechatPayNotify(w) /\ OwnOrder(w)
    \/ notify(w)
    \/ NotifyAck(w)

NextPair == \E w \in Workers : Delivery(w)

SpecPair == InitPair /\ [][NextPair]_vars

(***************************************************************************)
(* What the requests of a run have done, read from their records.         *)
(***************************************************************************)
\* the notify invocations for order o
NotifyCalls(o) == {w \in Callbacks : loc[w].called /\ loc[w].orderNo = o}

\* the invocations whose write of kind k was stored
Stored(o, k) == {w \in NotifyCalls(o) : k \in loc[w].saved}

PowerLogsOf(o) == {i \in 1..Len(powerLogs) : powerLogs[i].orderNo = o}

\* every invocation for o has been answered, and none returned an error
AllSettled(o) ==
    \A w \in NotifyCalls(o) : pc[w] = "done" /\ loc[w].err = ""

Forward(from, to) ==
    \/ from = to
    \/ <<from, to>> \in {<<OrderNotPaid, OrderScanned>>,
                         <<OrderScanned, OrderPaidSuccess>>,
                         <<OrderNotPaid, OrderPaidSuccess>>}

DoPayBody == {"dopay_fetch", "dopay_scan", "dopay_provider"}

\* notify between h.lock.Lock() and the deferred h.lock.Unlock()
CriticalSection ==
    {"credit", "update_user", "update_order", "update_sales", "power_log", "unlock"}

PaidOrders == {o \in DOMAIN orders : orders[o].status = OrderPaidSuccess}

\* the sum of amount[o] over the orders os
RECURSIVE Total(_, _)
Total(os, amount) ==
    IF os = {} THEN 0
    ELSE LET o == CHOOSE x \in os : TRUE
         IN amount[o] + Total(os \ {o}, amount)

DaysBought(os) ==
    Total(os, [o \in os |-> JsonDecode(orders[o].remark).val.days])

PowerBought(os) ==
    Total(os, [o \in os |-> JsonDecode(orders[o].remark).val.power])

\* the row of an account that started as user and was credited every order
\* of os, each once
CreditedAll(user, os) ==
    [user EXCEPT
       !.power = @ + PowerBought(os)
                   + (IF DaysBought(os) > 0 /\ user.expiredTime < now
                      THEN VipMonthPower ELSE 0),
       !.expiredTime = IF DaysBought(os) = 0 THEN @
                       ELSE (IF @ >= now THEN @ ELSE now)
                              + DaysBought(os) * SecondsPerDay,
       !.vip = @ \/ DaysBought(os) > 0]

(***************************************************************************)
(* The claims.                                                             *)
(***************************************************************************)
\* C1: once two or more notify invocations for the same unpaid order have
\* all returned nil, the user has been credited exactly once for it, the
\* product's sales were incremented exactly once, the order is PaidSuccess
\* and no second power log was written for it.  (The log count is bounded
\* from above only: extending a running subscription credits no power and
\* writes no log, which is the subject of C12.)
C1_IdempotentSettlement ==
    \A o \in StoredOrderNos :
      (Cardinality(NotifyCalls(o)) >= 2 /\ AllSettled(o))
        => /\ Cardinality(Stored(o, "user")) = 1
           /\ Cardinality(Stored(o, "sales")) = 1
           /\ Cardinality(PowerLogsOf(o)) <= 1
           /\ orders[o].status = OrderPaidSuccess

\* C2: a notify invocation that read the order as PaidSuccess performs no
\* write (none stored, none attempted), returns nil, and its endpoint
\* answers "success".
C2_DuplicateDeliveryNoOp ==
    \A w \in Callbacks :
      loc[w].seen = OrderPaidSuccess
        => /\ loc[w].saved = {}
           /\ loc[w].lost = {}
           /\ pc[w] \in {"lock", "credit", "unlock", "ack", "done"}
           /\ pc[w] \in {"unlock", "ack", "done"} => loc[w].err = ""
           /\ pc[w] = "done" => loc[w].resp = "success"

C2_Witness ==
    \E w \in Callbacks :
      /\ pc[w] = "done"
      /\ loc[w].seen = OrderPaidSuccess
      /\ loc[w].resp = "success"

\* C3: the stored status of an order only moves NotPaid->Scanned,
\* Scanned->PaidSuccess or NotPaid->PaidSuccess; no write takes it away
\* from PaidSuccess.
C3_MonotonicStatus ==
    [][\A o \in DOMAIN orders : Forward(orders[o].status, orders'[o].status)]_vars

\* C4: a request is inside notify only after its endpoint has performed the
\* provider's callback verification and the verification has succeeded.
C4_VerifiedBeforeNotify ==
    \A w \in Callbacks :
      (loc[w].called /\ pc[w] # "done") => loc[w].verified

\* C7: every answered provider notification carries the body "success" or
\* the body "fail".
C7_AckTokens ==
    \A w \in Callbacks :
      pc[w] = "done" => loc[w].resp \in {"success", "fail"}

\* C10: a notify invocation for an order number without a row never takes
\* h.lock, performs no write, returns an error, and its endpoint answers
\* "fail".
C10_UnknownOrder ==
    \A w \in Callbacks :
      (loc[w].called /\ ~FindOrder(loc[w].orderNo).exists)
        => /\ ~loc[w].locked
           /\ loc[w].saved = {}
           /\ loc[w].lost = {}
           /\ pc[w] \in {"notify", "ack", "done"}
           /\ pc[w] \in {"ack", "done"} => loc[w].err # ""
           /\ pc[w] = "done" => loc[w].resp = "fail"

C10_Witness ==
    \E w \in Callbacks :
      /\ pc[w] = "done"
      /\ loc[w].called
      /\ ~FindOrder(loc[w].orderNo).exists
      /\ loc[w].resp = "fail"
      /\ \E v \in Callbacks : "order" \in loc[v].saved

\* C5: a client that opens a pay URL PayQrcode issued, no later than
\* OrderPayTimeout seconds after it was issued, is not turned away by
\* DoPay's signature, expiry and argument checks.
C5_PayUrlRoundTrip ==
    \A w \in Clients :
      (pc[w] = "done" /\ loc[w].url)
        => loc[w].resp \notin {"sign error", "qrcode expired", "InvalidArgs"}

\* C6: DoPay goes on to the order lookup, the mark-scanned write and the
\* provider call only with a sign that is the hash of the supplied order_no,
\* the supplied t and the key, checked when now - t <= OrderPayTimeout; a
\* request it turns away has changed no row.
C6_SignatureSound ==
    [][\A w \in Clients :
         /\ pc'[w] \in DoPayBody
              => loc'[w].sign = Sha256(DoPaySignStr(loc'[w].orderNo, loc'[w].t))
         /\ (pc[w] \notin DoPayBody /\ pc'[w] \in DoPayBody)
              => now - loc'[w].t <= OrderPayTimeout
         /\ (pc[w] = "idle" /\ pc'[w] = "done"
               /\ loc'[w].resp \in {"sign error", "qrcode expired", "InvalidArgs"})
              => (loc'[w].saved = {} /\ UNCHANGED db)
         /\ "scanned" \in loc'[w].saved
              => pc[w] \in {"dopay_scan", "dopay_provider", "done"}]_vars

C6_Witness ==
    \E w \in Clients :
      /\ pc[w] = "dopay_provider"
      /\ "scanned" \in loc[w].saved
      /\ loc[w].t + OrderPayTimeout = now

\* C8: a notify invocation that found no user, could not decode the remark,
\* or had one of its writes fail is answered "fail".
C8_FailureAck ==
    \A w \in Callbacks :
      (/\ pc[w] = "done"
       /\ loc[w].called
       /\ \/ loc[w].lost # {}
          \/ loc[w].err \in {"error with fetch user info",
                             "error with decode order remark"})
        => loc[w].resp = "fail"

\* C9: when an invocation whose user update was stored failed on its order
\* update, and a redelivery for the same order then succeeded, the user has
\* been credited once for the order.
C9_RetryCreditsOnce ==
    \A o \in StoredOrderNos :
      (/\ \E w \in NotifyCalls(o) :
            pc[w] = "done" /\ "user" \in loc[w].saved /\ "order" \in loc[w].lost
       /\ \E w \in NotifyCalls(o) :
            pc[w] = "done" /\ loc[w].err = "" /\ "order" \in loc[w].saved)
        => Cardinality(Stored(o, "user")) = 1

\* C11: for a remark with days > 0, when the user's expiredTime >= now the
\* new expiredTime is the old one plus days and the power is unchanged,
\* otherwise the new expiredTime is now plus days and the power grows by
\* VipMonthPower, and vip is TRUE either way; for days <= 0 the power grows
\* by the remark's power and expiredTime and vip are unchanged.  The row
\* that is stored is the row so computed.
C11_CreditArithmetic ==
    [][\A w \in Callbacks :
         /\ (pc[w] = "credit" /\ pc'[w] = "update_user")
              => LET old == users[loc[w].order.userId]
                     remark == JsonDecode(loc[w].order.remark).val
                     new == loc'[w].user
                 IN /\ (remark.days > 0 /\ old.expiredTime >= now)
                         => /\ new.expiredTime
                                 = old.expiredTime + remark.days * SecondsPerDay
                            /\ new.power = old.power
                            /\ new.vip
                    /\ (remark.days > 0 /\ old.expiredTime < now)
                         => /\ new.expiredTime = now + remark.days * SecondsPerDay
                            /\ new.power = old.power + VipMonthPower
                            /\ new.vip
                    /\ remark.days <= 0
                         => /\ new.power = old.power + remark.power
                            /\ new.expiredTime = old.expiredTime
                            /\ new.vip = old.vip
                    /\ new.id = old.id
         /\ (pc[w] = "update_user" /\ pc'[w] = "update_order")
              => users'[loc[w].user.id] = loc[w].user]_vars

\* a subscription that ends this very second has been extended and stored
C11_Witness ==
    \E w \in Callbacks :
      /\ pc[w] = "update_order"
      /\ loc[w].opt = "extend"
      /\ now > 1
      /\ users[1].expiredTime = now + 30 * SecondsPerDay

\* C12: every notify invocation that has stored the PaidSuccess write of an
\* order and returned has inserted a power log for that order, whichever
\* branch credited the user: extension without power, new subscription,
\* top-up.
C12_AuditEntry ==
    \A w \in Callbacks :
      (pc[w] = "done" /\ "order" \in loc[w].saved)
        => /\ "log" \in loc[w].saved
           /\ PowerLogsOf(loc[w].orderNo) # {}

\* C13: a notify invocation that waits for its critical section can enter
\* it whenever no invocation for the same order is inside one: an
\* invocation settling another order does not hold it back.
C13_NoCrossOrderContention ==
    \A w \in Callbacks :
      (/\ pc[w] = "lock"
       /\ \A v \in Callbacks \ {w} :
            pc[v] \in CriticalSection => loc[v].orderNo # loc[w].orderNo)
        => ENABLED NotifyLock(w)

\* C14: when notify invocations for different unpaid orders of one user run
\* concurrently, then whenever no invocation is inside its critical section
\* the user's row reflects the credit of every paid order: the power bought
\* by all of them (and the subscription bonus once, if a lapsed
\* subscription was renewed), the expiry advanced by all their day counts.
C14_NoLostUpdate ==
    ~lock => \E user \in InitUsers : users[1] = CreditedAll(user, PaidOrders)

C14_Witness ==
    /\ ~lock
    /\ Cardinality(PaidOrders) >= 2
    /\ \A w \in Callbacks : pc[w] = "done" /\ "user" \in loc[w].saved

\* C15: a request that is answered with the error of a failed provider call
\* (DoPay's, Mobile's) leaves the row of its order in the store, NotPaid,
\* and has written nothing.
C15_ProviderFailureUntouched ==
    [][\A w \in Clients :
         (pc[w] # "done" /\ pc'[w] = "done" /\ loc'[w].resp = "provider error")
           => /\ loc'[w].orderNo \in DOMAIN orders'
              /\ orders'[loc'[w].orderNo].status = OrderNotPaid
              /\ loc'[w].saved = {}]_vars

\* C16: an order whose stored status is NotPaid or Scanned has no tradeNo
\* and no payTime.
C16_TradeNoOnlyWhenPaid ==
    \A o \in DOMAIN orders :
      orders[o].status \in {OrderNotPaid, OrderScanned}
        => (orders[o].tradeNo = "" /\ orders[o].payTime = 0)

\* C17: the remark an order got when it was created is never rewritten, and
\* the user row notify computes, the power it credits and the amount of the
\* power log it writes are those of that remark, whatever the product's row
\* holds by then.
C17_RemarkSnapshot ==
    [][/\ \A o \in DOMAIN orders : orders'[o].remark = orders[o].remark
       /\ \A w \in Callbacks :
            /\ (pc[w] = "credit" /\ pc'[w] = "update_user")
                 => LET order == orders[loc[w].orderNo]
                        credit == Credit(users[order.userId],
                                         JsonDecode(order.remark).val, now)
                    IN /\ loc'[w].user = credit[1]
                       /\ loc'[w].power = credit[2]
            /\ (pc[w] = "power_log" /\ Len(powerLogs') > Len(powerLogs))
                 => powerLogs'[Len(powerLogs')].amount = loc[w].power]_vars

\* the credit of an order was computed after its product had been edited
C17_Witness ==
    \E w \in Callbacks :
      /\ pc[w] = "update_user"
      /\ LET order == orders[loc[w].orderNo]
         IN /\ JsonEncode(products[order.productId]) # order.remark
            /\ loc[w].user # Credit(users[order.userId],
                                    products[order.productId], now)[1]

\* C18: no step of any interleaving of notify invocations lowers the stored
\* power of a user.
C18_PowerNeverDecreases ==
    [][\A id \in DOMAIN users : users'[id].power >= users[id].power]_vars

\* a settlement has raised the power of a user an earlier one had credited
C18_Witness ==
    \E w \in Callbacks :
      /\ pc[w] = "update_order"
      /\ loc[w].power > 0
      /\ PaidOrders # {}
      /\ users[1].power > loc[w].power + PowerBought(PaidOrders)

\* C19: h.lock is held exactly while some notify invocation is between its
\* Lock and its deferred Unlock, whichever way it returns; a held lock is
\* released, an invocation that waits for the lock gets it, and every
\* invocation of notify is answered.
C19_LockReleased ==
    /\ [](lock <=> \E w \in Callbacks : pc[w] \in CriticalSection)
    /\ lock ~> ~lock
    /\ \A w \in Callbacks : (pc[w] = "lock") ~> (pc[w] = "credit")
    /\ \A w \in Callbacks : loc[w].called ~> (pc[w] = "done")

\* an invocation waits for the lock while another returns an error
C19_Witness ==
    \E w, v \in Callbacks :
      /\ pc[w] = "lock"
      /\ pc[v] = "unlock"
      /\ loc[v].err # ""

\* C20: an order whose stored status is PaidSuccess was marked so by a notify
\* invocation whose user update had been stored before, and the row of its
\* user is no longer the one the account started with.
C20_PaidImpliesCredited ==
    \A o \in DOMAIN orders :
      orders[o].status = OrderPaidSuccess
        => /\ \E w \in NotifyCalls(o) : {"user", "order"} \subseteq loc[w].saved
           /\ FindUser(orders[o].userId) \notin InitUsers \cup {NoRow}

\* an order was paid by a redelivery after a user update for it had failed
C20_Witness ==
    \E o \in PaidOrders :
      \E w \in NotifyCalls(o) : "user" \in loc[w].lost /\ pc[w] = "done"

====
